---- MODULE Spec2Model ----
(***************************************************************************)
(* Model of LawvisoryBaseStrategy (src/strategies/base_strategy.py): the   *)
(* per-day decision pipeline on_trading_iteration with its trailing stop,  *)
(* drawdown breaker, cooldown and cadence gates, selection, risk sizing    *)
(* and delta orders.                                                       *)
(*                                                                         *)
(* Units.  Prices, portfolio value and dollars are integers in dollars.    *)
(* Fractions of the profile are integers in hundredths (0.20 -> 20),       *)
(* atr_mult_trail is in tenths (2.7 -> 27) and an ATR is in thousandths of *)
(* a dollar (10.0 -> 10000), so a stop distance atr_mult_trail * ATR is in *)
(* 1/10000 dollar.  Arithmetic is exact (rational); the double rounding of *)
(* the Python floats is not modelled.                                      *)
(*                                                                         *)
(* Dates.  The code only ever compares stored dates with the current       *)
(* trading date, so dates are kept relative to it: today is 0, a stored    *)
(* date d days in the past is -d.  Advancing the clock by g days shifts    *)
(* every stored date by -g; a date is not tracked further into the past    *)
(* than the point where the code's comparison stops depending on it.       *)
(*                                                                         *)
(* Optional values (float | None, date | None) are the empty set or a      *)
(* singleton.                                                              *)
(***************************************************************************)
EXTENDS Integers, Sequences, FiniteSets, TLC

VARIABLES
    last_rebalance_day,   \* self._last_rebalance_day : date | None
    highest_close,        \* self._highest_close : dict symbol -> price
    equity_peak,          \* self._equity_peak : float | None
    cooldown_until,       \* self._cooldown_until : date | None
    position,             \* host: quantity held per host symbol
    orders,               \* orders submitted by the last trading step, in order
    log,                  \* stages the last trading step went through, in order
    stops,                \* trailing-stop comparisons of the last step
    fires_since_peak,     \* history: breaker firings since equity_peak last rose
    max_pv_seen,          \* history: largest portfolio value read by the breaker
    exits_sent,           \* history: trailing-stop exits sent per symbol since
                          \* the host last changed its position
    size_in,              \* inputs of a sizing taken on its own
    size_out,             \* its result, or none before it ran
    fn_in,                \* inputs of a function of the engine taken on its own
    fn_out,               \* its result, or none before it ran
    clock,                \* host: the trading date the bar cache is asked on
    cache_day,            \* self._cache_day : date | None
    hist_cache,           \* self._hist_cache : dict (symbol, length) -> frame
    fetches,              \* history: get_historical_prices calls per key today
    first_result,         \* history: what _get_daily_df first returned per key today
    fetched_on,           \* history: the trading date each cached frame was fetched on
    last_call             \* history: the last _get_daily_df call, or none

vars == <<last_rebalance_day, highest_close, equity_peak, cooldown_until,
          position, orders, log, stops, fires_since_peak, max_pv_seen,
          exits_sent, size_in, size_out, fn_in, fn_out,
          clock, cache_day, hist_cache, fetches, first_result, fetched_on,
          last_call>>

engine_vars == <<last_rebalance_day, highest_close, equity_peak, cooldown_until,
                 position, orders, log, stops, fires_since_peak, max_pv_seen,
                 exits_sent, size_in, size_out>>

fn_vars == <<fn_in, fn_out>>

cache_vars == <<clock, cache_day, hist_cache, fetches, first_result, fetched_on,
                last_call>>

-----------------------------------------------------------------------------
(* Optional values and dicts *)

None == {}

Some(x) == {x}

Val(o) == CHOOSE x \in o : TRUE

Max(a, b) == IF a >= b THEN a ELSE b

Min(a, b) == IF a <= b THEN a ELSE b

Abs(a) == IF a >= 0 THEN a ELSE -a

EmptyDict == [k \in {} |-> 0]

Get(d, k, default) == IF k \in DOMAIN d THEN d[k] ELSE default

Put(d, k, v) == [x \in (DOMAIN d) \cup {k} |-> IF x = k THEN v ELSE d[x]]

Pop(d, k) == [x \in (DOMAIN d) \ {k} |-> d[x]]

InSeq(x, q) == \E i \in 1..Len(q) : q[i] = x

\* No function has been taken on its own.
NoCall == fn_in = None /\ fn_out = None

\* The bar cache as initialize leaves it, on the first trading date.
CacheInit ==
    /\ clock = 1
    /\ cache_day = None
    /\ hist_cache = EmptyDict
    /\ fetches = EmptyDict
    /\ first_result = EmptyDict
    /\ fetched_on = EmptyDict
    /\ last_call = None

-----------------------------------------------------------------------------
(* Profile: the "balanced" preset, which is also what an unknown profile   *)
(* name falls back to.                                                     *)

profile ==
    [max_positions        |-> 10,
     rebalance_every_days |-> 14,
     risk_per_entry_cap   |-> 1,     \* 0.01, hundredths
     total_risk_budget    |-> 7,     \* 0.07, hundredths
     target_exposure_bull |-> 98,    \* 0.98, hundredths
     target_exposure_bear |-> 20,    \* 0.20, hundredths
     min_price            |-> 5,
     vol_penalty          |-> 25,    \* 0.25, hundredths
     max_sector_positions |-> 3,
     atr_period           |-> 14,
     atr_mult_trail       |-> 27,    \* 2.7, tenths
     max_drawdown         |-> 20,    \* 0.20, hundredths
     cooldown_days        |-> 10]

\* PROFILES, in the same units
PROFILES ==
    [balanced |-> profile,
     max_return |->
        [max_positions        |-> 7,
         rebalance_every_days |-> 10,
         risk_per_entry_cap   |-> 1,
         total_risk_budget    |-> 10,
         target_exposure_bull |-> 99,
         target_exposure_bear |-> 30,
         min_price            |-> 5,
         vol_penalty          |-> 15,
         max_sector_positions |-> 2,
         atr_period           |-> 14,
         atr_mult_trail       |-> 30,
         max_drawdown         |-> 20,
         cooldown_days        |-> 7]]

\* str(risk_profile_name).lower().strip() on the names the model passes
LowerStrip ==
    [n \in {"balanced", "Balanced ", "max_return", " MAX_RETURN", "conservative",
            "Aggressive"} |->
        CASE n \in {"balanced", "Balanced "} -> "balanced"
          [] n \in {"max_return", " MAX_RETURN"} -> "max_return"
          [] n = "conservative" -> "conservative"
          [] n = "Aggressive" -> "aggressive"]

\* name = str(risk_profile_name or "balanced").lower().strip()
ProfileName(risk_profile_name) ==
    IF risk_profile_name = None \/ risk_profile_name = Some("") THEN "balanced"
    ELSE LowerStrip[Val(risk_profile_name)]

\* The keyword overrides of initialize.  Each is none or a value in the unit
\* of its field, except rebalance_every_days, which is in tenths of a day
\* (a sweep may pass 7.5) and goes through int().
Overridable ==
    {"risk_per_entry_cap", "total_risk_budget", "atr_mult_trail",
     "rebalance_every_days", "vol_penalty", "max_drawdown",
     "target_exposure_bear", "target_exposure_bull"}

\* replace(prof, f = float(v)), or int(v) for rebalance_every_days
Converted(f, v) == IF f = "rebalance_every_days" THEN v \div 10 ELSE v

\* Mutant of InitializeProfile: an unknown name falls back to the last preset.
InitializeProfileLast(risk_profile_name, overrides) ==
    LET name == ProfileName(risk_profile_name)
        prof == IF name \in DOMAIN PROFILES THEN PROFILES[name] ELSE PROFILES.max_return
    IN [f \in DOMAIN prof |->
           IF f \in Overridable /\ overrides[f] # None
           THEN Converted(f, Val(overrides[f]))
           ELSE prof[f]]

\* self.profile as initialize builds it
InitializeProfile(risk_profile_name, overrides) ==
    LET name == ProfileName(risk_profile_name)
        prof == IF name \in DOMAIN PROFILES THEN PROFILES[name] ELSE PROFILES.balanced
    IN [f \in DOMAIN prof |->
           IF f \in Overridable /\ overrides[f] # None
           THEN Converted(f, Val(overrides[f]))
           ELSE prof[f]]

MIN_ORDER_DOLLARS == 150

\* The current trading date, self.get_datetime().date(): the origin of dates.
today == 0

\* A stored date after the clock advanced by gap days.
Shift(d, gap, floor) == IF d = None THEN None ELSE Some(Max(Val(d) - gap, floor))

-----------------------------------------------------------------------------
(* Scheduling / guards *)

ShouldRebalanceToday(lrd) ==
    IF lrd = None THEN TRUE
    ELSE (today - Val(lrd)) >= profile.rebalance_every_days

\* Mutant of InCooldown: the last day of the cooldown is not part of it.
InCooldownStrict(cu) ==
    IF cu = None THEN FALSE
    ELSE today < Val(cu)


InCooldown(cu) ==
    IF cu = None THEN FALSE
    ELSE today <= Val(cu)

-----------------------------------------------------------------------------
(* Symbol mapping: str.replace(".", "-") on the tickers of the model *)

ReplaceDot(s) == IF s = "BRK.B" THEN "BRK-B" ELSE s

SrcSymbol(symbol, is_backtesting) ==
    IF is_backtesting THEN ReplaceDot(symbol) ELSE symbol

-----------------------------------------------------------------------------
(* Data helpers: the bar cache.  A frame is the sequence of its rows, a    *)
(* row is [date, nan]: the date of the bar and whether a column of it is   *)
(* NaN.  The index of a frame is a DatetimeIndex, as the host builds it.   *)
(* A fetch get_historical_prices(sym, length) raises, returns nothing, or  *)
(* returns bars.                                                           *)

NO_LOOKAHEAD == TRUE

\* df.dropna()
DropNa(df) == SelectSeq(df, LAMBDA row : ~row.nan)

\* Drop the current day's bar (no-lookahead).
StripLookahead(df, day) ==
    IF NO_LOOKAHEAD /\ Len(df) >= 3 /\ df[Len(df)].date >= day
    THEN SubSeq(df, 1, Len(df) - 1)
    ELSE df

\* Mutant of CacheAtDay: a new day is noted but the cache is kept.
CacheKept(cache, cday, day) == cache

\* The cache after the day check at the head of _get_daily_df.
CacheAtDay(cache, cday, day) ==
    IF cday # Some(day) THEN EmptyDict ELSE cache

\* _get_daily_df(symbol, length) on trading date day with the cache as it is,
\* got being what the fetch does if it comes to one: the cache afterwards, the
\* value returned (none or a frame) and whether the host was asked.
GetDailyDf(cache, cday, day, symbol, length, got, is_backtesting) ==
    LET kept == CacheAtDay(cache, cday, day)
        key == <<SrcSymbol(symbol, is_backtesting), length>>
    IN IF key \in DOMAIN kept
       THEN [cache |-> kept, result |-> Some(kept[key]), fetched |-> FALSE, key |-> key]
       ELSE IF got.kind = "bars"
            THEN LET df == StripLookahead(DropNa(got.df), day)
                 IN [cache |-> Put(kept, key, df), result |-> Some(df),
                     fetched |-> TRUE, key |-> key]
            ELSE [cache |-> kept, result |-> None, fetched |-> TRUE, key |-> key]

-----------------------------------------------------------------------------
(* Stops / exits.  A step state st carries the engine fields a step works  *)
(* on (hc, peak, cu, lrd) and what the step has emitted so far (orders,    *)
(* log, stops).  env is the host environment: env.host_symbols is          *)
(* the order in which get_positions() lists the positions.  in holds what  *)
(* the host accessors return during this step.                             *)

Order(src, symbol, qty, side) ==
    [src |-> src, symbol |-> symbol, qty |-> qty, side |-> side]

\* An exception leaves the step: nothing catches it between the host accessor
\* that raised and on_trading_iteration, so whatever the step has done so far
\* stays done and none of the rest of it runs.
Raise(st) == [st EXCEPT !.log = Append(@, "raised")]

Raised(st) == InSeq("raised", st.log)

\* Mutant of StopHit: the stop distance is one ATR, the multiple is left out.
StopHitOneAtr(px, prev_high, atr) ==
    10000 * px <= 10000 * prev_high - 10 * atr

\* px <= prev_high - atr_mult_trail * atr, in 1/10000 dollar
StopHit(px, prev_high, atr) ==
    10000 * px <= 10000 * prev_high - profile.atr_mult_trail * atr

\* Mutant of TrailOne: the ATR is read before the high is updated, and a
\* symbol without ATR is left as it was.
TrailOneAtrFirst(st, sym, qty, in, env) ==
    IF Raised(st) THEN st
    ELSE IF qty <= 0 THEN st
    ELSE IF SrcSymbol(sym, env.is_backtesting) \in in.raises THEN Raise(st)
    ELSE LET p == in.px[SrcSymbol(sym, env.is_backtesting)] IN
         IF p = None \/ Val(p) <= 0 THEN st
         ELSE LET px == Val(p)
                  got == Get(st.hc, sym, px)
                  prev_high == IF px > got THEN px ELSE got
                  atr == in.atr[SrcSymbol(sym, env.is_backtesting)]
              IN IF atr = None THEN st
                 ELSE LET seen == [st EXCEPT
                                      !.hc = Put(st.hc, sym, prev_high),
                                      !.stops = Append(@, [symbol |-> sym, px |-> px,
                                                           high |-> prev_high,
                                                           atr |-> Val(atr)])]
                      IN IF StopHit(px, prev_high, Val(atr))
                         THEN [seen EXCEPT
                                 !.orders = Append(@, Order("trail",
                                               SrcSymbol(sym, env.is_backtesting),
                                               Abs(qty), "sell")),
                                 !.hc = Pop(seen.hc, sym)]
                         ELSE seen

\* One iteration of the loop of _apply_trailing_stops, for position sym.
TrailOne(st, sym, qty, in, env) ==
    IF Raised(st) THEN st
    ELSE IF qty <= 0 THEN st
    ELSE IF SrcSymbol(sym, env.is_backtesting) \in in.raises THEN Raise(st)
    ELSE LET p == in.px[SrcSymbol(sym, env.is_backtesting)] IN
         IF p = None \/ Val(p) <= 0 THEN st
         ELSE LET px == Val(p)
                  got == Get(st.hc, sym, px)
                  prev_high == IF px > got THEN px ELSE got
                  tracked == [st EXCEPT !.hc = Put(st.hc, sym, prev_high)]
                  atr == in.atr[SrcSymbol(sym, env.is_backtesting)]
              IN IF atr = None THEN tracked
                 ELSE LET seen == [tracked EXCEPT !.stops =
                                      Append(@, [symbol |-> sym, px |-> px,
                                                 high |-> prev_high,
                                                 atr |-> Val(atr)])]
                      IN IF StopHit(px, prev_high, Val(atr))
                         THEN [seen EXCEPT
                                 !.orders = Append(@, Order("trail",
                                               SrcSymbol(sym, env.is_backtesting),
                                               Abs(qty), "sell")),
                                 !.hc = Pop(seen.hc, sym)]
                         ELSE seen

RECURSIVE TrailFrom(_, _, _, _, _)
TrailFrom(st, i, pos, in, env) ==
    IF i > Len(env.host_symbols) THEN st
    ELSE TrailFrom(TrailOne(st, env.host_symbols[i], pos[env.host_symbols[i]], in, env),
                   i + 1, pos, in, env)

ApplyTrailingStops(st, pos, in, env) ==
    TrailFrom([st EXCEPT !.log = Append(@, "trail")], 1, pos, in, env)

\* dd >= max_drawdown with dd = (peak - pv) / max(1e-9, peak), peak > 0
DrawdownReached(peak, pv) ==
    100 * (peak - pv) >= profile.max_drawdown * peak

\* Mutant of LiquidateOne: short positions are not covered.
LiquidateLongOnly(st, sym, qty, env) ==
    LET sent == IF qty > 0
                THEN [st EXCEPT !.orders = Append(@, Order("breaker",
                                    SrcSymbol(sym, env.is_backtesting), Abs(qty), "sell"))]
                ELSE st
    IN [sent EXCEPT !.hc = Pop(sent.hc, sym)]

\* One iteration of the liquidation loop of _apply_drawdown_breaker.
LiquidateOne(st, sym, qty, env) ==
    LET sent == IF qty # 0
                THEN [st EXCEPT !.orders = Append(@, Order("breaker",
                                    SrcSymbol(sym, env.is_backtesting), Abs(qty),
                                    IF qty > 0 THEN "sell" ELSE "buy"))]
                ELSE st
    IN [sent EXCEPT !.hc = Pop(sent.hc, sym)]

RECURSIVE LiquidateFrom(_, _, _, _)
LiquidateFrom(st, i, pos, env) ==
    IF i > Len(env.host_symbols) THEN st
    ELSE LiquidateFrom(LiquidateOne(st, env.host_symbols[i], pos[env.host_symbols[i]], env),
                       i + 1, pos, env)

\* Mutant of NewPeak: the peak follows the last portfolio value.
NewPeakLast(peak, pv) == Some(pv)

\* self._equity_peak after the breaker has read portfolio value pv: set on the
\* first reading, raised by a larger one, and assigned nowhere else.
NewPeak(peak, pv) ==
    IF peak = None THEN Some(pv)
    ELSE IF pv > Val(peak) THEN Some(pv)
    ELSE peak

ApplyDrawdownBreaker(st, pos, in, env) ==
    LET pv == in.pv
        entered == [st EXCEPT !.log = Append(@, "breaker"),
                              !.peak = NewPeak(st.peak, pv)]
    IN IF Raised(st) THEN st
       ELSE IF st.peak = None \/ pv > Val(st.peak) THEN entered
       ELSE IF DrawdownReached(Val(st.peak), pv)
            THEN LET logged == [entered EXCEPT !.log = Append(@, "[DD] liquidate + cooldown")]
                 IN [LiquidateFrom(logged, 1, pos, env) EXCEPT
                        !.cu = Some(today + profile.cooldown_days)]
            ELSE entered

-----------------------------------------------------------------------------
(* Regime.  An exposure is a fraction in 1/3000 (1.0 -> 3000): hundredths  *)
(* times the width 30 of the breadth band, so that the blend is exact.     *)
(* spy is the result of _spy_trend_bull (TRUE, FALSE or none) and b the    *)
(* result of _breadth_fraction in hundredths, or none.                     *)

BREADTH_LOW == 35

BREADTH_HIGH == 65

Clamp(x, lo, hi) == Max(lo, Min(hi, x))

\* Mutant of RiskOnFractionOf: the breadth smoothing is left out.
RiskOnFractionBase(prof, spy, b, lrd) ==
    LET bear == prof.target_exposure_bear
        bull == prof.target_exposure_bull
        width == BREADTH_HIGH - BREADTH_LOW
        base == IF spy = Some(TRUE) THEN bull
                ELSE IF spy = Some(FALSE) THEN bear
                ELSE 100
    IN width * base

\* _risk_on_fraction under the targets of prof, in 1/(100 * width)
RiskOnFractionOf(prof, spy, b, lrd) ==
    LET bear == prof.target_exposure_bear
        bull == prof.target_exposure_bull
        width == BREADTH_HIGH - BREADTH_LOW
        base == IF spy = Some(TRUE) THEN bull
                ELSE IF spy = Some(FALSE) THEN bear
                ELSE 100
    IN IF ~ShouldRebalanceToday(lrd) THEN width * base
       ELSE IF b = None THEN width * base
       ELSE \* dial = clamp01((b - LOW) / (HIGH - LOW)), kept times width
            LET dial == Clamp(Val(b) - BREADTH_LOW, 0, width)
                exp == width * bear + dial * (bull - bear)
            IN Clamp(exp, 0, width * 100)

RiskOnFraction(spy, b, lrd) == RiskOnFractionOf(profile, spy, b, lrd)

-----------------------------------------------------------------------------
(* Ranking.  The daily frame of a symbol is seen through what the ranker   *)
(* reads of it: rows (none when the frame is missing or has no close       *)
(* column), last_close, sma200 (none for NaN), past[lb] = close.iloc[-lb]  *)
(* and the realized volatility in hundredths (none when unavailable).      *)

TREND_SMA_DAYS == 200

MOM_12M == 252

MOM_6M == 126

MOM_3M == 63

\* needed = max(TREND_SMA_DAYS, MOM_12M) + 30
RankNeeded == Max(TREND_SMA_DAYS, MOM_12M) + 30

\* mom(lb) in twentieths: (last_close / past) - 1.  The closes of the model
\* make last_close * 20 a multiple of past, so the division is exact.
Mom(df, lb) ==
    IF Val(df.rows) <= lb THEN None
    ELSE IF df.past[lb] <= 0 THEN None
    ELSE Some((df.last_close * 20) \div df.past[lb] - 20)

\* The score of one symbol in 1/20000, or none when a filter drops it.
ScoreOne(df, prof) ==
    IF df.rows = None \/ Val(df.rows) < RankNeeded - 5 THEN None
    ELSE IF df.last_close < prof.min_price THEN None
    ELSE IF df.sma200 = None \/ df.last_close <= Val(df.sma200) THEN None
    ELSE LET m12 == Mom(df, MOM_12M)
             m6 == Mom(df, MOM_6M)
             m3 == Mom(df, MOM_3M)
         IN IF m12 = None \/ m6 = None \/ m3 = None THEN None
            ELSE IF df.vol = None THEN None
            ELSE Some(500 * Val(m12) + 300 * Val(m6) + 200 * Val(m3)
                      - 2 * prof.vol_penalty * Val(df.vol))

RECURSIVE ScoredFrom(_, _, _, _)
ScoredFrom(universe, i, bars, prof) ==
    IF i > Len(universe) THEN <<>>
    ELSE LET score == ScoreOne(bars[universe[i]], prof)
             rest == ScoredFrom(universe, i + 1, bars, prof)
         IN IF score = None THEN rest
            ELSE <<[sym |-> universe[i], score |-> Val(score)]>> \o rest

\* Mutant of InsertDesc: an equal score goes in front of the ones before it.
InsertDescFront(sorted, x) ==
    LET before == SelectSeq(sorted, LAMBDA y : y.score > x.score)
        after == SelectSeq(sorted, LAMBDA y : y.score <= x.score)
    IN before \o <<x>> \o after

\* One step of the stable descending sort: x goes behind every pair whose
\* score is at least its own (sorted is in descending order).
InsertDesc(sorted, x) ==
    LET before == SelectSeq(sorted, LAMBDA y : y.score >= x.score)
        after == SelectSeq(sorted, LAMBDA y : y.score < x.score)
    IN before \o <<x>> \o after

\* scored.sort(key = score, reverse = True)
RECURSIVE SortDesc(_, _)
SortDesc(scored, n) ==
    IF n = 0 THEN <<>>
    ELSE InsertDesc(SortDesc(scored, n - 1), scored[n])

RankCandidates(universe, bars, prof) ==
    LET scored == ScoredFrom(universe, 1, bars, prof)
        sorted == SortDesc(scored, Len(scored))
    IN [i \in 1..Len(sorted) |-> sorted[i].sym]

-----------------------------------------------------------------------------
(* Selection *)

SeqToSet(q) == {q[i] : i \in 1..Len(q)}

RECURSIVE CappedPass(_, _, _, _, _, _, _)
CappedPass(ranked, i, sector_by_symbol, sector_count, selected, max_pos, cap) ==
    IF i > Len(ranked) THEN selected
    ELSE LET sym == ranked[i]
             sec == Get(sector_by_symbol, sym, "UNKNOWN")
         IN IF Get(sector_count, sec, 0) >= cap
            THEN CappedPass(ranked, i + 1, sector_by_symbol, sector_count,
                            selected, max_pos, cap)
            ELSE LET sel == Append(selected, sym)
                     cnt == Put(sector_count, sec, Get(sector_count, sec, 0) + 1)
                 IN IF Len(sel) >= max_pos THEN sel
                    ELSE CappedPass(ranked, i + 1, sector_by_symbol, cnt,
                                    sel, max_pos, cap)

RECURSIVE FillPass(_, _, _, _)
FillPass(ranked, i, selected, max_pos) ==
    IF i > Len(ranked) THEN selected
    ELSE IF ranked[i] \in SeqToSet(selected)
         THEN FillPass(ranked, i + 1, selected, max_pos)
         ELSE LET sel == Append(selected, ranked[i])
              IN IF Len(sel) >= max_pos THEN sel
                 ELSE FillPass(ranked, i + 1, sel, max_pos)

\* Mutant of SelectWithSectorCaps: the fallback pass runs whether or not the
\* capped pass has filled the slots.
SelectAlwaysFill(ranked, sector_by_symbol, max_pos, cap) ==
    IF ranked = <<>> THEN <<>>
    ELSE FillPass(ranked, 1, <<>>, max_pos)

\* Mutant of SelectWithSectorCaps: there is no fallback pass.
SelectCappedOnly(ranked, sector_by_symbol, max_pos, cap) ==
    IF ranked = <<>> THEN <<>>
    ELSE IF DOMAIN sector_by_symbol = {}
         THEN SubSeq(ranked, 1, Min(max_pos, Len(ranked)))
         ELSE CappedPass(ranked, 1, sector_by_symbol, EmptyDict, <<>>, max_pos, cap)

SelectWithSectorCaps(ranked, sector_by_symbol, max_pos, cap) ==
    IF ranked = <<>> THEN <<>>
    ELSE IF DOMAIN sector_by_symbol = {}
         THEN SubSeq(ranked, 1, Min(max_pos, Len(ranked)))
         ELSE LET selected == CappedPass(ranked, 1, sector_by_symbol, EmptyDict,
                                         <<>>, max_pos, cap)
              IN IF Len(selected) < max_pos
                 THEN FillPass(ranked, 1, selected, max_pos)
                 ELSE selected

-----------------------------------------------------------------------------
(* Rebalance: inverse-vol weights + ATR risk sizing.  A weight is the      *)
(* fraction wn / wd, with 1/v scaled by the least common multiple of the   *)
(* volatilities so that it is an integer.                                  *)

RECURSIVE Gcd(_, _)
Gcd(a, b) == IF b = 0 THEN a ELSE Gcd(b, a % b)

Lcm(a, b) == (a \div Gcd(a, b)) * b

\* 1) sell anything not in selected: one iteration of the loop
SellOne(st, sym, qty, selected_set, env) ==
    IF qty # 0 /\ sym \notin selected_set
    THEN [st EXCEPT
            !.orders = Append(@, Order("rebalance",
                                 SrcSymbol(sym, env.is_backtesting), Abs(qty),
                                 IF qty > 0 THEN "sell" ELSE "buy")),
            !.hc = Pop(st.hc, sym)]
    ELSE st

RECURSIVE SellFrom(_, _, _, _, _)
SellFrom(st, i, pos, selected_set, env) ==
    IF i > Len(env.host_symbols) THEN st
    ELSE SellFrom(SellOne(st, env.host_symbols[i], pos[env.host_symbols[i]],
                          selected_set, env),
                  i + 1, pos, selected_set, env)

\* 2) vols: the selected symbols with a valid volatility, in selection order
RECURSIVE VolsFrom(_, _, _, _)
VolsFrom(selected, i, in, env) ==
    IF i > Len(selected) THEN <<>>
    ELSE LET v == in.vol[SrcSymbol(selected[i], env.is_backtesting)]
             rest == VolsFrom(selected, i + 1, in, env)
         IN IF v # None /\ Val(v) > 0
            THEN <<[symbol |-> selected[i], v |-> Val(v)]>> \o rest
            ELSE rest

RECURSIVE LcmFrom(_, _)
LcmFrom(vols, i) ==
    IF i > Len(vols) THEN 1 ELSE Lcm(vols[i].v, LcmFrom(vols, i + 1))

\* inv[s] = 1.0 / v, times the common multiple
Inv(vols, i) == LcmFrom(vols, 1) \div vols[i].v

RECURSIVE InvSumFrom(_, _)
InvSumFrom(vols, i) ==
    IF i > Len(vols) THEN 0 ELSE Inv(vols, i) + InvSumFrom(vols, i + 1)

\* weights[s] = inv[s] / inv_sum, as [symbol, wn, wd]
Weights(vols) ==
    [i \in 1..Len(vols) |->
        [symbol |-> vols[i].symbol, wn |-> Inv(vols, i), wd |-> InvSumFrom(vols, 1)]]

\* stop_dist = max(0.01, atr_mult_trail * atr), in 1/10000 dollar
StopDist(atr) == Max(100, profile.atr_mult_trail * atr)

\* Mutant of RiskDollars: the budget share alone, without the per-entry cap.
RiskDollarsUncapped(pv, w) == pv * profile.total_risk_budget * w.wn

\* risk_dollars = min(total_risk_dollars * w, risk_dollars_cap), times 100 * wd
RiskDollars(pv, w) ==
    Min(pv * profile.total_risk_budget * w.wn, pv * profile.risk_per_entry_cap * w.wd)

\* int(risk_dollars // stop_dist)
SharesByRisk(pv, w, atr) == (100 * RiskDollars(pv, w)) \div (w.wd * StopDist(atr))

\* int((pv * exposure * w) // px)
SharesByCapital(pv, exposure, w, px) == (pv * exposure * w.wn) \div (3000 * w.wd * px)

\* Mutant of Shares: the looser of the two ceilings wins.
SharesLooser(pv, exposure, w, px, atr) ==
    Max(0, Max(SharesByRisk(pv, w, atr), SharesByCapital(pv, exposure, w, px)))

Shares(pv, exposure, w, px, atr) ==
    Max(0, Min(SharesByRisk(pv, w, atr), SharesByCapital(pv, exposure, w, px)))

\* 3) risk sizing: desired_qty, as [symbol, shares] in the order of weights
RECURSIVE SizeFrom(_, _, _, _, _, _)
SizeFrom(weights, i, pv, exposure, in, env) ==
    IF i > Len(weights) THEN <<>>
    ELSE LET w == weights[i]
             p == in.px[SrcSymbol(w.symbol, env.is_backtesting)]
             atr == in.atr[SrcSymbol(w.symbol, env.is_backtesting)]
             rest == SizeFrom(weights, i + 1, pv, exposure, in, env)
         IN IF p = None \/ Val(p) <= 0 THEN rest
            ELSE IF atr = None THEN rest
            ELSE LET shares == Shares(pv, exposure, w, Val(p), Val(atr))
                 IN IF shares <= 0 THEN rest
                    ELSE IF shares * Val(p) < MIN_ORDER_DOLLARS THEN rest
                    ELSE <<[symbol |-> w.symbol, shares |-> shares]>> \o rest

\* Whether get_last_price raises for a symbol the sizing loop comes to.
SizeRaises(weights, in, env) ==
    \E i \in 1..Len(weights) : SrcSymbol(weights[i].symbol, env.is_backtesting) \in in.raises

\* 4) submit delta orders: one iteration of the loop
DeltaOne(st, sym, target, pos, in, env) ==
    LET src == SrcSymbol(sym, env.is_backtesting)
        cur == Get(pos, src, 0)
        delta == target - cur
        p == in.px[src]
    IN IF delta = 0 THEN st
       ELSE IF p = None \/ Val(p) <= 0 THEN st
       ELSE IF Abs(delta) * Val(p) < MIN_ORDER_DOLLARS THEN st
       ELSE IF delta > 0
            THEN [st EXCEPT
                    !.orders = Append(@, Order("rebalance", src, delta, "buy")),
                    !.hc = Put(st.hc, sym, Max(Get(st.hc, sym, Val(p)), Val(p)))]
            ELSE [st EXCEPT
                    !.orders = Append(@, Order("rebalance", src, Abs(delta), "sell")),
                    !.hc = IF cur + delta <= 0 THEN Pop(st.hc, sym) ELSE st.hc]

RECURSIVE DeltaFrom(_, _, _, _, _, _)
DeltaFrom(st, i, desired_qty, pos, in, env) ==
    IF i > Len(desired_qty) THEN st
    ELSE DeltaFrom(DeltaOne(st, desired_qty[i].symbol, desired_qty[i].shares,
                            pos, in, env),
                   i + 1, desired_qty, pos, in, env)

\* Steps 2) and 3) of _rebalance: vols, weights and desired_qty.
Sizing(selected, exp, in, env) ==
    LET vols == VolsFrom(selected, 1, in, env)
        exposure == Clamp(exp, 0, 3000)
    IN [vols |-> vols,
        weights |-> Weights(vols),
        desired_qty |-> IF vols = <<>> THEN <<>>
                        ELSE SizeFrom(Weights(vols), 1, in.pv, exposure, in, env)]

Rebalance(st, selected, exp, pos, in, env) ==
    LET entered == [st EXCEPT !.log = Append(@, "rebalance")] IN
    IF selected = <<>> THEN [entered EXCEPT !.log = Append(@, "none selected -> cash")]
    ELSE LET sold == SellFrom(entered, 1, pos, SeqToSet(selected), env)
             sized == Sizing(selected, exp, in, env)
         IN IF sized.vols = <<>> THEN [sold EXCEPT !.log = Append(@, "no vols -> cash")]
            ELSE IF SizeRaises(sized.weights, in, env) THEN Raise(sold)
            ELSE IF sized.desired_qty = <<>>
                 THEN [sold EXCEPT !.log = Append(@, "no targets after sizing -> cash")]
                 ELSE [DeltaFrom(sold, 1, sized.desired_qty, pos, in, env) EXCEPT
                          !.log = Append(@, "held")]

-----------------------------------------------------------------------------
(* Main loop *)

\* Mutant of OnTradingIteration: the guards run after the rebalance.
IterationRebalanceFirst(st, pos, in, env) ==
    LET exposure == RiskOnFraction(in.spy, in.breadth, st.lrd)
        selected == SelectWithSectorCaps(in.ranked, env.sector_by_symbol,
                        profile.max_positions, profile.max_sector_positions)
        done == IF InCooldown(st.cu) \/ ~ShouldRebalanceToday(st.lrd) THEN st
                ELSE [Rebalance(st, selected, exposure, pos, in, env) EXCEPT
                         !.lrd = Some(today)]
    IN ApplyDrawdownBreaker(ApplyTrailingStops(done, pos, in, env), pos, in, env)


OnTradingIteration(st, pos, in, env) ==
    LET trailed == ApplyTrailingStops(st, pos, in, env)
        guarded == ApplyDrawdownBreaker(trailed, pos, in, env)
    IN IF Raised(guarded) THEN guarded
       ELSE IF InCooldown(guarded.cu)
       THEN [guarded EXCEPT !.log = Append(@, "cooldown")]
       ELSE IF ~ShouldRebalanceToday(guarded.lrd) THEN guarded
       ELSE LET exposure == RiskOnFraction(in.spy, in.breadth, guarded.lrd)
                ranked == in.ranked
                selected == SelectWithSectorCaps(ranked, env.sector_by_symbol,
                                profile.max_positions, profile.max_sector_positions)
                chosen == [guarded EXCEPT !.log = @ \o <<"regime", "rank", "select">>]
                done == Rebalance(chosen, selected, exposure, pos, in, env)
            IN IF Raised(done) THEN done ELSE [done EXCEPT !.lrd = Some(today)]

-----------------------------------------------------------------------------
(* The host.  A trading step happens on a new trading date, gap days after *)
(* the previous one; the host accessors return in.pv, in.px, in.atr during *)
(* the step and, when the step gets past its gates, in.vol, in.ranked,     *)
(* in.spy and in.breadth; get_last_price raises for the symbols in         *)
(* in.raises.  Orders are fire and forget: the positions the host reports  *)
(* change only when it fills the orders of a step (HostFill); orders it    *)
(* has not filled when the next step runs are never filled.                *)
(* The history variables stops and exits_sent, and the prices and ATRs of  *)
(* the last step in fn_in, are recorded only under an environment that     *)
(* observes them (env.observe).                                            *)

MaxGap == 2

MaxFires == 2

\* The engine fields at the start of a step on the date gap days later.
StepStart(gap) ==
    [hc |-> highest_close,
     peak |-> equity_peak,
     cu |-> Shift(cooldown_until, gap, today - 1),
     lrd |-> Shift(last_rebalance_day, gap, today - profile.rebalance_every_days),
     orders |-> <<>>, log |-> <<>>, stops |-> <<>>]

Sent(os, src, sym) ==
    {i \in 1..Len(os) : os[i].src = src /\ os[i].symbol = sym}

Fired(lg) == InSeq("[DD] liquidate + cooldown", lg)

Commit(r, in, env) ==
    /\ highest_close' = r.hc
    /\ equity_peak' = r.peak
    /\ cooldown_until' = r.cu
    /\ last_rebalance_day' = r.lrd
    /\ orders' = r.orders
    /\ log' = r.log
    /\ stops' = IF "stops" \in env.observe THEN r.stops ELSE <<>>
    /\ fires_since_peak' = IF r.peak # equity_peak THEN 0
                           ELSE IF Fired(r.log) THEN Min(fires_since_peak + 1, MaxFires)
                           ELSE fires_since_peak
    /\ max_pv_seen' = IF max_pv_seen = None THEN Some(in.pv)
                      ELSE Some(Max(Val(max_pv_seen), in.pv))
    /\ exits_sent' = [s \in DOMAIN exits_sent |->
                        IF "exits" \in env.observe /\ Sent(r.orders, "trail", s) # {}
                        THEN Min(exits_sent[s] + 1, MaxFires)
                        ELSE exits_sent[s]]
    /\ fn_in' = IF "inputs" \in env.observe
                THEN Some([px |-> in.px, atr |-> in.atr])
                ELSE fn_in
    /\ UNCHANGED <<position, size_in, size_out, fn_out, cache_vars>>

\* Whether a step from st gets past the cooldown and cadence gates.
GatesOpen(st, pos, in, env) ==
    LET guarded == ApplyDrawdownBreaker(ApplyTrailingStops(st, pos, in, env), pos, in, env)
    IN ~Raised(guarded) /\ ~InCooldown(guarded.cu) /\ ShouldRebalanceToday(guarded.lrd)

StepIn(env) ==
    \E gap \in env.gaps, pv \in env.pvs, px \in env.pxs, atr \in env.atrs,
       raises \in env.raises :
        LET quiet == [pv |-> pv, px |-> px, atr |-> atr, vol |-> px,
                      ranked |-> <<>>, spy |-> None, breadth |-> None,
                      raises |-> raises]
        IN IF GatesOpen(StepStart(gap), position, quiet, env)
           THEN \E vol \in env.vols, ranked \in env.rankings,
                   spy \in env.spys, breadth \in env.breadths :
                    LET in == [pv |-> pv, px |-> px, atr |-> atr, vol |-> vol,
                               ranked |-> ranked, spy |-> spy, breadth |-> breadth,
                               raises |-> raises]
                    IN Commit(OnTradingIteration(StepStart(gap), position, in, env), in, env)
           ELSE Commit(OnTradingIteration(StepStart(gap), position, quiet, env), quiet, env)

RECURSIVE Filled(_, _, _)
Filled(pos, os, i) ==
    IF i > Len(os) THEN pos
    ELSE Filled([pos EXCEPT ![os[i].symbol] =
                    IF os[i].side = "buy" THEN @ + os[i].qty ELSE @ - os[i].qty],
                os, i + 1)

HostFill ==
    /\ orders # <<>>
    /\ position' = Filled(position, orders, 1)
    /\ orders' = <<>>
    /\ log' = <<>>
    /\ stops' = <<>>
    /\ exits_sent' = [s \in DOMAIN exits_sent |->
                        IF position'[s] # position[s] THEN 0 ELSE exits_sent[s]]
    /\ UNCHANGED <<last_rebalance_day, highest_close, equity_peak, cooldown_until,
                   fires_since_peak, max_pv_seen, size_in, size_out,
                   fn_vars, cache_vars>>

-----------------------------------------------------------------------------
(* The engine on a two-symbol universe.  With fewer than 30 symbols        *)
(* _breadth_fraction has too few readings and returns none.                *)

Options(S) == {None} \cup {Some(x) : x \in S}

Env ==
    [universe |-> <<"A", "B">>,
     host_symbols |-> <<"A", "B">>,
     is_backtesting |-> TRUE,
     sector_by_symbol |-> [s \in {"A", "B"} |-> "Tech"],
     gaps |-> 1..MaxGap,
     pvs |-> {8000, 10000},
     pxs |-> {[A |-> Some(a), B |-> Some(1000)] : a \in {973, 1000}},
     atrs |-> {[A |-> a, B |-> Some(10000)] : a \in Options({10000})},
     vols |-> {[A |-> Some(20), B |-> Some(40)]},
     rankings |-> {<<>>, <<"A">>, <<"A", "B">>},
     spys |-> Options({FALSE}),
     breadths |-> {None},
     raises |-> {{}},
     observe |-> {}]

Init ==
    /\ last_rebalance_day = None
    /\ highest_close = EmptyDict
    /\ equity_peak = None
    /\ cooldown_until = None
    /\ position = [s \in {"A", "B"} |-> 0]
    /\ orders = <<>>
    /\ log = <<>>
    /\ stops = <<>>
    /\ fires_since_peak = 0
    /\ max_pv_seen = None
    /\ exits_sent = [s \in {"A", "B"} |-> 0]
    /\ size_in = None
    /\ size_out = None
    /\ NoCall
    /\ CacheInit

Step == StepIn(Env)

Next == Step \/ HostFill

Spec == Init /\ [][Next]_vars

-----------------------------------------------------------------------------
(* The trailing stop of a held position.  The engine has bought 3 A at     *)
(* 1000 in its first rebalance and the host has filled the order; from     *)
(* then on the ranking is empty (no symbol passes the trend filter), the   *)
(* portfolio value stays put, and the price of A never exceeds its entry   *)
(* price.                                                                  *)

TrailEnv ==
    [Env EXCEPT
        !.pvs = {10000},
        !.pxs = {[A |-> Some(a), B |-> Some(1000)] : a \in {946, 973, 987, 1000}},
        !.rankings = {<<>>},
        !.observe = {"stops", "exits"}]

TrailInit ==
    /\ last_rebalance_day = Some(today)
    /\ highest_close = [s \in {"A"} |-> 1000]
    /\ equity_peak = Some(10000)
    /\ cooldown_until = None
    /\ position = [s \in {"A", "B"} |-> IF s = "A" THEN 3 ELSE 0]
    /\ orders = <<>>
    /\ log = <<>>
    /\ stops = <<>>
    /\ fires_since_peak = 0
    /\ max_pv_seen = Some(10000)
    /\ exits_sent = [s \in {"A", "B"} |-> 0]
    /\ size_in = None
    /\ size_out = None
    /\ NoCall
    /\ CacheInit

TrailStep == StepIn(TrailEnv)

TrailNext == TrailStep \/ HostFill

TrailSpec == TrailInit /\ [][TrailNext]_vars

-----------------------------------------------------------------------------
(* The cooldown of a held position.  The engine holds 3 A as in TrailInit; *)
(* no ATR is available, so the trailing stop stays quiet; the ranking is   *)
(* empty; the portfolio value moves between 8000 and 10000.  The host runs *)
(* a trading step on every trading day.                                    *)

CoolEnv ==
    [Env EXCEPT
        !.pvs = {8000, 9000, 10000},
        !.pxs = {[A |-> Some(1000), B |-> Some(1000)]},
        !.atrs = {[A |-> None, B |-> None]},
        !.rankings = {<<>>}]

CoolStep == StepIn(CoolEnv)

CoolNext == CoolStep \/ HostFill

CoolSpec == TrailInit /\ [][CoolNext]_vars /\ WF_vars(CoolStep)

-----------------------------------------------------------------------------
(* The sizing of one rebalance: steps 2) and 3) of _rebalance on inputs    *)
(* drawn from bounded sets.  exposure is in 1/3000.                        *)

SizeInputs ==
    [pv : {10000, 50000, 100000},
     exposure : {600, 2940, 3000},
     selected : {<<"A">>, <<"A", "B">>, <<"B", "A">>},
     vol : {[A |-> a, B |-> Some(40)] : a \in Options({20})},
     px : {[A |-> Some(a), B |-> b] : a \in {20, 1000}, b \in Options({100})},
     atr : {[A |-> Some(a), B |-> b] : a \in {3, 100, 10000}, b \in Options({1000})}]

SizeInit ==
    /\ last_rebalance_day = None
    /\ highest_close = EmptyDict
    /\ equity_peak = None
    /\ cooldown_until = None
    /\ position = [s \in {"A", "B"} |-> 0]
    /\ orders = <<>>
    /\ log = <<>>
    /\ stops = <<>>
    /\ fires_since_peak = 0
    /\ max_pv_seen = None
    /\ exits_sent = [s \in {"A", "B"} |-> 0]
    /\ size_in \in {Some(i) : i \in SizeInputs}
    /\ size_out = None
    /\ NoCall
    /\ CacheInit

Size ==
    /\ size_out = None
    /\ size_out' = Some(Sizing(Val(size_in).selected, Val(size_in).exposure,
                               Val(size_in), Env))
    /\ UNCHANGED <<last_rebalance_day, highest_close, equity_peak, cooldown_until,
                   position, orders, log, stops, fires_since_peak, max_pv_seen,
                   exits_sent, size_in, fn_vars, cache_vars>>

SizeNext == Size

SizeSpec == SizeInit /\ [][SizeNext]_vars

-----------------------------------------------------------------------------
(* The selection of one rebalance day: _select_with_sector_caps under one  *)
(* of the presets, on a ranked list of up to eight symbols of three        *)
(* sectors and a sector map that knows some of them.                       *)

HomeSector ==
    [S1 |-> "Tech", S2 |-> "Tech", S3 |-> "Tech", S4 |-> "Fin", S5 |-> "Fin",
     S6 |-> "Energy", S7 |-> "Energy", S8 |-> "Energy"]

Sectors == {"Tech", "Fin", "Energy"}

\* Two rankings of the eight symbols: sector by sector, and interleaved.
Rankings ==
    {<<"S1", "S2", "S3", "S4", "S5", "S6", "S7", "S8">>,
     <<"S1", "S4", "S6", "S2", "S5", "S7", "S3", "S8">>}

\* The ranked list is a prefix of a ranking; the sector map knows the home
\* sector of some of the symbols and nothing of the others.
SelectInputs ==
    [preset : DOMAIN PROFILES,
     ranked : {SubSeq(r, 1, n) : r \in Rankings, n \in {0, 3, 6, 7, 8}},
     sector_by_symbol : {[sym \in D |-> HomeSector[sym]] : D \in SUBSET DOMAIN HomeSector}]

SelectInit ==
    /\ last_rebalance_day = None
    /\ highest_close = EmptyDict
    /\ equity_peak = None
    /\ cooldown_until = None
    /\ position = [s \in {"A", "B"} |-> 0]
    /\ orders = <<>>
    /\ log = <<>>
    /\ stops = <<>>
    /\ fires_since_peak = 0
    /\ max_pv_seen = None
    /\ exits_sent = [s \in {"A", "B"} |-> 0]
    /\ size_in = None
    /\ size_out = None
    /\ fn_in \in {Some(i) : i \in SelectInputs}
    /\ fn_out = None
    /\ CacheInit

Select ==
    /\ fn_out = None
    /\ fn_out' = Some(SelectWithSectorCaps(Val(fn_in).ranked, Val(fn_in).sector_by_symbol,
                          PROFILES[Val(fn_in).preset].max_positions,
                          PROFILES[Val(fn_in).preset].max_sector_positions))
    /\ UNCHANGED <<engine_vars, fn_in, cache_vars>>

SelectNext == Select

SelectSpec == SelectInit /\ [][SelectNext]_vars

-----------------------------------------------------------------------------
(* The bar cache over a few trading dates: the indicators ask for the bars *)
(* of one symbol with two lookbacks, the host answers each fetch as it     *)
(* likes, and the trading date moves on.                                   *)

MaxDay == 3

MaxFetches == 2

\* n consecutive daily bars, the last one dated last.
Frame(n, last, nan) == [i \in 1..n |-> [date |-> last - (n - i), nan |-> nan]]

\* What a fetch of length bars can do on trading date day: raise, return
\* nothing, or return bars; the bars are clean or have NaN in every row, end
\* on the day before or on the day itself, and may be none at all.
HostFetch(length, day) ==
    {[kind |-> "raise"], [kind |-> "none"]}
        \cup {[kind |-> "bars", df |-> Frame(n, last, nan)] :
                 n \in {0, length}, last \in {day - 1, day}, nan \in BOOLEAN}

CacheSymbols == {"A"}

Lookbacks == {2, 3}

CacheSpecInit ==
    /\ last_rebalance_day = None
    /\ highest_close = EmptyDict
    /\ equity_peak = None
    /\ cooldown_until = None
    /\ position = [s \in {"A", "B"} |-> 0]
    /\ orders = <<>>
    /\ log = <<>>
    /\ stops = <<>>
    /\ fires_since_peak = 0
    /\ max_pv_seen = None
    /\ exits_sent = [s \in {"A", "B"} |-> 0]
    /\ size_in = None
    /\ size_out = None
    /\ NoCall
    /\ CacheInit

CallGetDailyDf ==
    \E symbol \in CacheSymbols, length \in Lookbacks :
        \E got \in HostFetch(length, clock) :
            LET r == GetDailyDf(hist_cache, cache_day, clock, symbol, length, got,
                                Env.is_backtesting)
            IN /\ cache_day' = Some(clock)
               /\ hist_cache' = r.cache
               /\ fetched_on' = [k \in DOMAIN r.cache |->
                                    IF r.fetched /\ k = r.key THEN clock
                                    ELSE fetched_on[k]]
               /\ fetches' = IF r.fetched
                             THEN Put(fetches, r.key,
                                      Min(Get(fetches, r.key, 0) + 1, MaxFetches))
                             ELSE fetches
               /\ first_result' = IF r.key \in DOMAIN first_result THEN first_result
                                  ELSE Put(first_result, r.key, r.result)
               /\ last_call' = Some([key |-> r.key, day |-> clock, result |-> r.result,
                                     fetched |-> r.fetched,
                                     got |-> IF r.fetched THEN got ELSE [kind |-> "hit"],
                                     found |-> hist_cache,
                                     kept |-> CacheAtDay(hist_cache, cache_day, clock),
                                     served_from |-> IF r.fetched THEN clock
                                                     ELSE fetched_on[r.key]])
               /\ UNCHANGED <<engine_vars, fn_vars, clock>>

NewDay ==
    /\ clock < MaxDay
    /\ clock' = clock + 1
    /\ fetches' = EmptyDict
    /\ first_result' = EmptyDict
    /\ last_call' = None
    /\ UNCHANGED <<engine_vars, fn_vars, cache_day, hist_cache, fetched_on>>

CacheNext == CallGetDailyDf \/ NewDay

CacheSpec == CacheSpecInit /\ [][CacheNext]_vars

-----------------------------------------------------------------------------
(* A host whose price accessor can fail.  The engine holds 3 A and 2 B,    *)
(* both bought at 1000; on some steps get_last_price raises for A (a host  *)
(* or network error).                                                      *)

FailEnv ==
    [Env EXCEPT
        !.pvs = {10000},
        !.pxs = {[A |-> Some(a), B |-> Some(b)] : a, b \in {973, 1000}},
        !.atrs = {[A |-> Some(10000), B |-> Some(10000)]},
        !.rankings = {<<>>},
        !.raises = {{}, {"A"}}]

FailInit ==
    /\ last_rebalance_day = Some(today)
    /\ highest_close = [s \in {"A", "B"} |-> 1000]
    /\ equity_peak = Some(10000)
    /\ cooldown_until = None
    /\ position = [s \in {"A", "B"} |-> IF s = "A" THEN 3 ELSE 2]
    /\ orders = <<>>
    /\ log = <<>>
    /\ stops = <<>>
    /\ fires_since_peak = 0
    /\ max_pv_seen = Some(10000)
    /\ exits_sent = [s \in {"A", "B"} |-> 0]
    /\ size_in = None
    /\ size_out = None
    /\ NoCall
    /\ CacheInit

FailStep == StepIn(FailEnv)

FailNext == FailStep \/ HostFill

FailSpec == FailInit /\ [][FailNext]_vars

-----------------------------------------------------------------------------
(* A dotted ticker in backtesting.  The universe holds BRK.B; the data     *)
(* source and the broker of a backtest know it as BRK-B, which is what     *)
(* _src_symbol turns it into for prices, bars and orders and what          *)
(* get_positions() reports.  It passes the ranking on every rebalance day, *)
(* its price stays above its trailing stop, and the regime, the price and  *)
(* the portfolio value are such that its target is 2 shares whenever it    *)
(* has one.                                                                *)

DotEnv ==
    [universe |-> <<"BRK.B">>,
     host_symbols |-> <<"BRK-B">>,
     is_backtesting |-> TRUE,
     sector_by_symbol |-> [s \in {"BRK.B"} |-> "Fin"],
     gaps |-> 1..MaxGap,
     pvs |-> {10000, 10200, 10400},
     pxs |-> {[s \in {"BRK-B"} |-> Some(1000)]},
     atrs |-> {[s \in {"BRK-B"} |-> a] : a \in Options({10000})},
     vols |-> {[s \in {"BRK-B"} |-> v] : v \in Options({20})},
     rankings |-> {<<"BRK.B">>},
     spys |-> {Some(FALSE)},
     breadths |-> {None},
     raises |-> {{}},
     observe |-> {}]

DotInit ==
    /\ last_rebalance_day = None
    /\ highest_close = EmptyDict
    /\ equity_peak = None
    /\ cooldown_until = None
    /\ position = [s \in {"BRK-B"} |-> 0]
    /\ orders = <<>>
    /\ log = <<>>
    /\ stops = <<>>
    /\ fires_since_peak = 0
    /\ max_pv_seen = None
    /\ exits_sent = [s \in {"BRK-B"} |-> 0]
    /\ size_in = None
    /\ size_out = None
    /\ NoCall
    /\ CacheInit

DotStep == StepIn(DotEnv)

DotNext == DotStep \/ HostFill

DotSpec == DotInit /\ [][DotNext]_vars

-----------------------------------------------------------------------------
(* The profile of one initialize call: a profile name as a strategy or a   *)
(* sweep passes it, and for each keyword override none or one value.       *)

OverrideValue ==
    [risk_per_entry_cap   |-> 2,
     total_risk_budget    |-> 12,
     atr_mult_trail       |-> 35,
     rebalance_every_days |-> 75,
     vol_penalty          |-> 40,
     max_drawdown         |-> 15,
     target_exposure_bear |-> 10,
     target_exposure_bull |-> 90]

ProfileInputs ==
    [name : {None, Some("")} \cup {Some(n) : n \in DOMAIN LowerStrip},
     overrides : {[f \in Overridable |-> IF f \in D THEN Some(OverrideValue[f]) ELSE None] :
                     D \in SUBSET Overridable}]

ProfileInit ==
    /\ last_rebalance_day = None
    /\ highest_close = EmptyDict
    /\ equity_peak = None
    /\ cooldown_until = None
    /\ position = [s \in {"A", "B"} |-> 0]
    /\ orders = <<>>
    /\ log = <<>>
    /\ stops = <<>>
    /\ fires_since_peak = 0
    /\ max_pv_seen = None
    /\ exits_sent = [s \in {"A", "B"} |-> 0]
    /\ size_in = None
    /\ size_out = None
    /\ fn_in \in {Some(i) : i \in ProfileInputs}
    /\ fn_out = None
    /\ CacheInit

Initialize ==
    /\ fn_out = None
    /\ fn_out' = Some(InitializeProfile(Val(fn_in).name, Val(fn_in).overrides))
    /\ UNCHANGED <<engine_vars, fn_in, cache_vars>>

ProfileNext == Initialize

ProfileSpec == ProfileInit /\ [][ProfileNext]_vars

-----------------------------------------------------------------------------
(* One call of _risk_on_fraction: the exposure targets of the profile, the *)
(* regime trend and the breadth in hundredths, on a day that is or is not  *)
(* a rebalance day.                                                        *)

RiskProfiles ==
    {PROFILES[n] : n \in DOMAIN PROFILES}
    \cup {[profile EXCEPT !.target_exposure_bear = t[1], !.target_exposure_bull = t[2]] :
             t \in {<<10, 90>>, <<60, 40>>, <<30, 120>>, <<-20, 50>>}}

RiskInputs ==
    [prof : RiskProfiles,
     spy : Options(BOOLEAN),
     breadth : Options({0, 20, 35, 36, 50, 64, 65, 80, 100})]

RiskDays ==
    Options({today, today - 1, today - profile.rebalance_every_days + 1,
             today - profile.rebalance_every_days})

RiskInit ==
    /\ last_rebalance_day \in RiskDays
    /\ highest_close = EmptyDict
    /\ equity_peak = None
    /\ cooldown_until = None
    /\ position = [s \in {"A", "B"} |-> 0]
    /\ orders = <<>>
    /\ log = <<>>
    /\ stops = <<>>
    /\ fires_since_peak = 0
    /\ max_pv_seen = None
    /\ exits_sent = [s \in {"A", "B"} |-> 0]
    /\ size_in = None
    /\ size_out = None
    /\ fn_in \in {Some(i) : i \in RiskInputs}
    /\ fn_out = None
    /\ CacheInit

RiskOn ==
    /\ fn_out = None
    /\ fn_out' = Some(RiskOnFractionOf(Val(fn_in).prof, Val(fn_in).spy,
                                       Val(fn_in).breadth, last_rebalance_day))
    /\ UNCHANGED <<engine_vars, fn_in, cache_vars>>

RiskNext == RiskOn

RiskSpec == RiskInit /\ [][RiskNext]_vars

-----------------------------------------------------------------------------
(* One call of _rank_candidates over a universe of three symbols, each     *)
(* with one of the frames below: missing, short, cheap, at or under its    *)
(* average, without a 12-month close, without volatility, or scored.       *)

RankUniverse == <<"A", "B", "C">>

RankFrame(rows, last, sma, p12, p6, p3, vol) ==
    [rows |-> rows, last_close |-> last, sma200 |-> Some(sma),
     past |-> [lb \in {MOM_12M, MOM_6M, MOM_3M} |->
                  IF lb = MOM_12M THEN p12 ELSE IF lb = MOM_6M THEN p6 ELSE p3],
     vol |-> vol]

RankFrames ==
    {RankFrame(None, 10, 8, 10, 10, 10, Some(20)),
     RankFrame(Some(270), 10, 8, 10, 10, 10, Some(20)),
     RankFrame(Some(282), 4, 2, 4, 4, 4, Some(20)),
     RankFrame(Some(282), 10, 10, 10, 10, 10, Some(20)),
     RankFrame(Some(282), 10, 12, 5, 5, 5, Some(20)),
     RankFrame(Some(282), 10, 8, 0, 10, 10, Some(20)),
     RankFrame(Some(282), 10, 8, 10, 10, 10, None),
     RankFrame(Some(282), 10, 8, 10, 10, 10, Some(20)),
     RankFrame(Some(277), 10, 8, 5, 10, 10, Some(20)),
     RankFrame(Some(282), 20, 10, 10, 20, 20, Some(40)),
     RankFrame(Some(282), 20, 10, 10, 20, 20, Some(20))}

RankInputs ==
    [prof : {PROFILES[n] : n \in DOMAIN PROFILES},
     bars : [SeqToSet(RankUniverse) -> RankFrames]]

RankInit ==
    /\ last_rebalance_day = None
    /\ highest_close = EmptyDict
    /\ equity_peak = None
    /\ cooldown_until = None
    /\ position = [s \in {"A", "B"} |-> 0]
    /\ orders = <<>>
    /\ log = <<>>
    /\ stops = <<>>
    /\ fires_since_peak = 0
    /\ max_pv_seen = None
    /\ exits_sent = [s \in {"A", "B"} |-> 0]
    /\ size_in = None
    /\ size_out = None
    /\ fn_in \in {Some(i) : i \in RankInputs}
    /\ fn_out = None
    /\ CacheInit

Rank ==
    /\ fn_out = None
    /\ fn_out' = Some(RankCandidates(RankUniverse, Val(fn_in).bars, Val(fn_in).prof))
    /\ UNCHANGED <<engine_vars, fn_in, cache_vars>>

RankNext == Rank

RankSpec == RankInit /\ [][RankNext]_vars

-----------------------------------------------------------------------------
(* A held position under a changing ATR: 3 shares of A tracked at 1000,    *)
(* prices that stay above every stop level, and an ATR of 10.0 or 20.0.    *)

AtrEnv ==
    [TrailEnv EXCEPT
        !.pxs = {[A |-> Some(a), B |-> Some(1000)] : a \in {990, 1000, 1010}},
        !.atrs = {[A |-> Some(a), B |-> Some(10000)] : a \in {10000, 20000}},
        !.observe = {"stops"}]

AtrStep == StepIn(AtrEnv)

AtrNext == AtrStep

AtrSpec == TrailInit /\ [][AtrNext]_vars

-----------------------------------------------------------------------------
(* A held position whose ATR comes and goes: 3 shares of A tracked at      *)
(* 1000, prices under, at and over the tracked high, and an ATR of 10.0 or *)
(* none.  The prices and ATRs of each step are observed.                   *)

SkipEnv ==
    [TrailEnv EXCEPT
        !.pxs = {[A |-> Some(a), B |-> Some(1000)] : a \in {973, 1000, 1010}},
        !.atrs = {[A |-> a, B |-> Some(10000)] : a \in Options({10000})},
        !.observe = {"stops", "inputs"}]

SkipStep == StepIn(SkipEnv)

SkipNext == SkipStep \/ HostFill

SkipSpec == TrailInit /\ [][SkipNext]_vars

-----------------------------------------------------------------------------
(* A rebalance that fails half way: 2 shares of B held, A ranked but not   *)
(* held, and a host whose get_last_price('A') may raise.  A is not held,   *)
(* so the trailing pass does not ask for its price; the sizing loop does.  *)

GateEnv ==
    [Env EXCEPT
        !.pvs = {10000},
        !.pxs = {[A |-> Some(1000), B |-> Some(b)] : b \in {1000, 1010}},
        !.atrs = {[A |-> Some(10000), B |-> Some(10000)]},
        !.rankings = {<<>>, <<"A">>},
        !.raises = {{}, {"A"}}]

GateInit ==
    /\ last_rebalance_day = None
    /\ highest_close = [s \in {"B"} |-> 1000]
    /\ equity_peak = Some(10000)
    /\ cooldown_until = None
    /\ position = [s \in {"A", "B"} |-> IF s = "B" THEN 2 ELSE 0]
    /\ orders = <<>>
    /\ log = <<>>
    /\ stops = <<>>
    /\ fires_since_peak = 0
    /\ max_pv_seen = Some(10000)
    /\ exits_sent = [s \in {"A", "B"} |-> 0]
    /\ size_in = None
    /\ size_out = None
    /\ NoCall
    /\ CacheInit

GateStep == StepIn(GateEnv)

GateNext == GateStep \/ HostFill

GateSpec == GateInit /\ [][GateNext]_vars

-----------------------------------------------------------------------------
(* Properties.  A state with log # <<>> is the state right after a trading *)
(* step: orders, log and stops are what that step emitted, and position is *)
(* what the host reported during it.                                       *)

\* C1: the breaker fires once per breach: after it has fired it does not fire
\* again before the portfolio value has set a new peak, i.e. it fires at most
\* once between two rises of equity_peak.
C1_BreakerOncePerBreach == fires_since_peak <= 1

\* C5: on a step whose date is on or before cooldown_until nothing of the
\* rebalance runs (no regime, rank, select or rebalance stage, no rebalance
\* order, last_rebalance_day not set to the step's date), and both guards ran.
C5_CooldownSuppressesRebalance ==
    (log # <<>> /\ cooldown_until # None /\ today <= Val(cooldown_until)) =>
        /\ \A stage \in {"regime", "rank", "select", "rebalance"} : ~InSeq(stage, log)
        /\ \A i \in 1..Len(orders) : orders[i].src # "rebalance"
        /\ last_rebalance_day # Some(today)
        /\ InSeq("trail", log) /\ InSeq("breaker", log)

\* C5 witness: a step inside a cooldown started on an earlier day on which the
\* trailing stop still sent an exit.
C5_Witness ==
    /\ log # <<>> /\ ~Fired(log)
    /\ cooldown_until # None /\ today <= Val(cooldown_until)
    /\ Sent(orders, "trail", "A") # {}

\* C7: a step on which the breaker fires sends exactly one breaker order per
\* nonzero position, for its full quantity (sell if long, buy if short), leaves
\* none of these symbols in highest_close and sets cooldown_until to the
\* step's date + cooldown_days; a step on which it does not fire sends no
\* breaker order and leaves cooldown_until as it was.
C7_BreakerLiquidatesAll ==
    [][log' # <<>> =>
        IF Fired(log')
        THEN /\ cooldown_until' = Some(today + profile.cooldown_days)
             /\ \A s \in DOMAIN position :
                   IF position[s] # 0
                   THEN /\ Cardinality(Sent(orders', "breaker", s)) = 1
                        /\ \A i \in Sent(orders', "breaker", s) :
                              /\ orders'[i].qty = Abs(position[s])
                              /\ orders'[i].side = IF position[s] > 0 THEN "sell" ELSE "buy"
                        /\ s \notin DOMAIN highest_close'
                   ELSE Sent(orders', "breaker", s) = {}
        ELSE /\ \A i \in 1..Len(orders') : orders'[i].src # "breaker"
             /\ \E gap \in 1..MaxGap : cooldown_until' = Shift(cooldown_until, gap, today - 1)
    ]_vars

\* C7 witness: the breaker has fired with a long and a short position open.
C7_Witness ==
    /\ Fired(log)
    /\ \E s, t \in DOMAIN position : position[s] > 0 /\ position[t] < 0

\* C8: equity_peak is the largest portfolio value the breaker has read so far
\* (hence never decreases), also after the breaker has fired.
C8_PeakIsMaxSeen == equity_peak = max_pv_seen

\* C8 witness: the breaker has fired below a peak that an earlier step set.
C8_Witness == Fired(log) /\ equity_peak = Some(10000)

\* C9: every step runs the trailing stops and then the breaker before anything
\* else, and every order of the guards precedes every rebalance order.
C9_GuardsBeforeRebalance ==
    log # <<>> =>
        /\ Len(log) >= 2 /\ log[1] = "trail" /\ log[2] = "breaker"
        /\ \A i, j \in 1..Len(orders) :
              (orders[i].src = "rebalance" /\ orders[j].src \in {"trail", "breaker"})
                  => j < i

\* C9 witness: a step that sent a trailing-stop exit and then a rebalance order.
C9_Witness ==
    \E i, j \in 1..Len(orders) :
        i < j /\ orders[i].src = "trail" /\ orders[j].src = "rebalance"

\* The stop level of a trailing-stop comparison, in 1/10000 dollar.
StopLevel(c) == 10000 * c.high - profile.atr_mult_trail * c.atr

\* C2 (as amended): a step sends a trailing-stop sell for a symbol only if the
\* symbol's ATR was known and its price was at or below the running high (after
\* this step's update) minus atr_mult_trail x ATR; no sell while the price is
\* strictly above that level.
C2_NoSellAboveStop ==
    \A s \in DOMAIN position :
        Sent(orders, "trail", s) # {} =>
            \E i \in 1..Len(stops) :
                stops[i].symbol = s /\ 10000 * stops[i].px <= StopLevel(stops[i])

\* C2 witness: the price has fallen below the running high but is still above
\* the stop level, and the step sent no exit.
C2_Witness ==
    \E i \in 1..Len(stops) :
        /\ stops[i].px < stops[i].high
        /\ 10000 * stops[i].px > StopLevel(stops[i])
        /\ Sent(orders, "trail", stops[i].symbol) = {}

\* C2 (as stated): no trailing-stop sell for a symbol while its price is at or
\* above the running high minus atr_mult_trail x ATR.
C2_NoSellAtOrAboveStop ==
    \A i \in 1..Len(stops) :
        10000 * stops[i].px >= StopLevel(stops[i]) =>
            Sent(orders, "trail", stops[i].symbol) = {}

\* C3: a held position whose price never exceeds its entry price gets its
\* trailing-stop exit exactly once: no second exit is sent on a later step
\* while the position is still as it was (the first exit still pending).
C3_ExitSentOnce == \A s \in DOMAIN exits_sent : exits_sent[s] <= 1

\* C4: after every trading step every key of highest_close is a symbol that is
\* held; a symbol this very step has ordered to buy counts as held.
C4_TrackedMeansHeld ==
    log # <<>> =>
        \A s \in DOMAIN highest_close :
            \/ position[s] # 0
            \/ \E i \in Sent(orders, "rebalance", s) : orders[i].side = "buy"

\* A trading step that got past the cooldown gate.
Resumed == log # <<>> /\ ~InSeq("cooldown", log)

\* C6: after the breaker has fired, rebalancing resumes by itself: as trading
\* steps keep occurring, eventually a step is not suppressed by the cooldown,
\* unless the portfolio value sets a new peak first (from which a new breach
\* may start a new cooldown).
C6_RebalancingResumes ==
    Fired(log) ~> (Resumed \/ fires_since_peak = 0)

RECURSIVE Invested(_, _, _)
Invested(desired_qty, px, i) ==
    IF i > Len(desired_qty) THEN 0
    ELSE desired_qty[i].shares * Val(px[desired_qty[i].symbol])
         + Invested(desired_qty, px, i + 1)

\* C10: every target share count times the stop distance is within the risk
\* dollars allocated to the symbol (the budget share and the per-entry cap),
\* times the price it is within portfolio value x exposure x weight, and the
\* targets together cost no more than portfolio value x exposure (exact
\* arithmetic; shares are whole, so s * d <= r is s <= floor(r / d)).
C10_SizingCeilings ==
    size_out # None =>
        LET in == Val(size_in)
            out == Val(size_out)
        IN /\ \A i \in 1..Len(out.desired_qty) :
                LET t == out.desired_qty[i]
                    atr == Val(in.atr[t.symbol])
                    px == Val(in.px[t.symbol])
                    stop_dist == IF profile.atr_mult_trail * atr > 100
                                 THEN profile.atr_mult_trail * atr ELSE 100
                IN \E j \in 1..Len(out.weights) :
                      LET w == out.weights[j]
                      IN /\ w.symbol = t.symbol
                         /\ t.shares * stop_dist * w.wd
                               <= 100 * in.pv * profile.total_risk_budget * w.wn
                         /\ t.shares * stop_dist
                               <= 100 * in.pv * profile.risk_per_entry_cap
                         /\ t.shares * px * 3000 * w.wd <= in.pv * in.exposure * w.wn
           /\ 3000 * Invested(out.desired_qty, in.px, 1) <= in.pv * in.exposure

\* C10 witness: two targets, one held down by its risk ceiling and one by its
\* capital ceiling.
C10_Witness ==
    /\ size_out # None
    /\ Len(Val(size_out).desired_qty) = 2
    /\ \E i, j \in 1..2 :
          LET in == Val(size_in)
              out == Val(size_out)
              t == out.desired_qty[i]
              u == out.desired_qty[j]
          IN /\ (t.shares + 1) * profile.atr_mult_trail * Val(in.atr[t.symbol])
                    > 100 * in.pv * profile.risk_per_entry_cap
             /\ \E k \in 1..2 :
                   /\ out.weights[k].symbol = u.symbol
                   /\ (u.shares + 1) * Val(in.px[u.symbol]) * 3000 * out.weights[k].wd
                         > in.pv * in.exposure * out.weights[k].wn

\* The sector a symbol counts under.
SectorOf(m, sym) == IF sym \in DOMAIN m THEN m[sym] ELSE "UNKNOWN"

\* How many symbols of the sequence q count under sector sec.
InSector(q, m, sec) == Cardinality({i \in 1..Len(q) : SectorOf(m, q[i]) = sec})

RECURSIVE SumOver(_, _, _, _)
SumOver(secs, q, m, cap) ==
    IF secs = {} THEN 0
    ELSE LET sec == CHOOSE x \in secs : TRUE
         IN Min(cap, InSector(q, m, sec)) + SumOver(secs \ {sec}, q, m, cap)

\* How many symbols of the ranked list a pass that respects the cap can take.
CappedCapacity(ranked, m, cap) == SumOver(Sectors \cup {"UNKNOWN"}, ranked, m, cap)

\* C11: the selection has at most max_positions symbols, and it has more than
\* max_sector_positions symbols of one sector only if a pass respecting the cap
\* could not fill max_positions slots.
C11_SelectionCaps ==
    fn_out # None =>
        LET in == Val(fn_in)
            out == Val(fn_out)
            max_pos == PROFILES[in.preset].max_positions
            cap == PROFILES[in.preset].max_sector_positions
        IN /\ Len(out) <= max_pos
           /\ (\E sec \in Sectors \cup {"UNKNOWN"} :
                    InSector(out, in.sector_by_symbol, sec) > cap)
                 => CappedCapacity(in.ranked, in.sector_by_symbol, cap) < max_pos

\* C11 witness: more symbols ranked than slots, a sector with more ranked
\* symbols than the cap allows, and the capped pass filled every slot.
C11_Witness ==
    /\ fn_out # None
    /\ Len(Val(fn_in).ranked) > Len(Val(fn_out))
    /\ Len(Val(fn_out)) = PROFILES[Val(fn_in).preset].max_positions
    /\ \E sec \in Sectors :
          InSector(Val(fn_in).ranked, Val(fn_in).sector_by_symbol, sec)
              > PROFILES[Val(fn_in).preset].max_sector_positions
    /\ \A sec \in Sectors \cup {"UNKNOWN"} :
          InSector(Val(fn_out), Val(fn_in).sector_by_symbol, sec)
              <= PROFILES[Val(fn_in).preset].max_sector_positions

\* C12: every cached frame was fetched on cache_day, and a frame served from
\* the cache was fetched on the trading date of the call.
C12_CacheOfToday ==
    /\ \A k \in DOMAIN hist_cache : cache_day = Some(fetched_on[k])
    /\ last_call # None => Val(last_call).served_from = Val(last_call).day

\* C12 witness: the first call of a new trading date found frames of the day
\* before in the cache and left none of them there.
C12_Witness ==
    /\ last_call # None
    /\ Val(last_call).day > 1
    /\ DOMAIN Val(last_call).found \ {Val(last_call).key} # {}
    /\ Val(last_call).kept = EmptyDict
    /\ DOMAIN hist_cache = {Val(last_call).key}

\* C13: within one trading date the host is asked for the bars of a (symbol,
\* lookback) pair at most once, and every call for the pair returns what the
\* first one returned.
C13_FetchedOncePerDay ==
    /\ \A k \in DOMAIN fetches : fetches[k] <= 1
    /\ last_call # None =>
          first_result[Val(last_call).key] = Val(last_call).result

\* C14: no frame returned by or stored in the bar cache has a bar dated on or
\* after the trading date it was fetched on.
C14_NoLookahead ==
    NO_LOOKAHEAD =>
        /\ \A k \in DOMAIN hist_cache :
              \A i \in 1..Len(hist_cache[k]) : hist_cache[k][i].date < fetched_on[k]
        /\ \A df \in (IF last_call = None THEN {} ELSE Val(last_call).result) :
              \A i \in 1..Len(df) : df[i].date < Val(last_call).day

\* A fetch that failed or brought no bar: it raised, returned nothing, or
\* returned bars of which no row is left once the rows with NaN are dropped.
FailedOrEmpty(got) ==
    \/ got.kind \in {"raise", "none"}
    \/ got.kind = "bars" /\ \A i \in 1..Len(got.df) : got.df[i].nan

\* C15: a call whose fetch failed or brought no bar returns none and leaves the
\* cache as the call found it (after the day check).
C15_FailedFetchReturnsNone ==
    (last_call # None /\ FailedOrEmpty(Val(last_call).got)) =>
        /\ Val(last_call).result = None
        /\ hist_cache = Val(last_call).kept

\* C16: a trading step never raises: whatever a host accessor does for one
\* symbol, the step runs both guards over all positions to the end.
C16_StepNeverRaises ==
    log # <<>> =>
        /\ ~InSeq("raised", log)
        /\ InSeq("trail", log) /\ InSeq("breaker", log)

\* A rebalance that ended without a target.
HoldCash(lg) ==
    \E tag \in {"none selected -> cash", "no vols -> cash",
                "no targets after sizing -> cash"} : InSeq(tag, lg)

\* C17: a step whose rebalance ends without a target opens or adds to no
\* position and has sent every open position an order for its full quantity
\* that closes it (sell if long, buy if short).
C17_NoTargetsMeansCash ==
    (log # <<>> /\ HoldCash(log)) =>
        \A s \in DOMAIN position :
            /\ position[s] >= 0 =>
                  \A i \in 1..Len(orders) : ~(orders[i].symbol = s /\ orders[i].side = "buy")
            /\ position[s] # 0 =>
                  \E i \in 1..Len(orders) :
                      /\ orders[i].symbol = s
                      /\ orders[i].qty = Abs(position[s])
                      /\ orders[i].side = IF position[s] > 0 THEN "sell" ELSE "buy"

\* C18: the rebalance recognises a held position of a selected symbol whatever
\* the spelling of its ticker at the data and order boundary: a step that
\* selected the symbol (here every step that got to select) sends the position
\* no rebalance order that closes it in full.
C18_SelectedIsNotSoldOut ==
    InSeq("select", log) =>
        \A s \in DOMAIN position :
            position[s] # 0 =>
                \A i \in Sent(orders, "rebalance", s) :
                    ~(/\ orders[i].qty = Abs(position[s])
                      /\ orders[i].side = IF position[s] > 0 THEN "sell" ELSE "buy")

\* C19: initialize with a profile name that is not in the preset table builds
\* the balanced preset, each field given an override holding the value passed
\* (rebalance_every_days its whole days) and every other field the preset's.
C19_UnknownNameIsBalanced ==
    (fn_out # None /\ Val(fn_in).name \in {Some("conservative"), Some("Aggressive")}) =>
        /\ DOMAIN Val(fn_out) = DOMAIN PROFILES.balanced
        /\ \A f \in DOMAIN PROFILES.balanced :
              IF f \in Overridable /\ Val(fn_in).overrides[f] # None
              THEN Val(fn_out)[f] = IF f = "rebalance_every_days"
                                    THEN 7 ELSE OverrideValue[f]
              ELSE Val(fn_out)[f] = PROFILES.balanced[f]

\* C19 witness: ConservativeStrategy's call, name 'conservative' and no
\* override, has built the balanced preset.
C19_Witness ==
    /\ fn_out # None
    /\ Val(fn_in).name = Some("conservative")
    /\ \A f \in Overridable : Val(fn_in).overrides[f] = None
    /\ Val(fn_out) = PROFILES.balanced

\* The exposure fraction x as fn_out holds it: 3000 is 100%.
Pct(x) == 30 * x

\* The days since the last rebalance reach the period, or there was none.
RebalanceDue ==
    \/ last_rebalance_day = None
    \/ Val(last_rebalance_day) <= today - 14

\* C20: _risk_on_fraction returns, on a rebalance day with breadth b, the
\* bear target up to breadth 0.35, the bull target from 0.65, and between
\* them the straight line from one to the other, held within [0, 100%]; with
\* both targets in [0, 100%] breadth 0.50 gives their midpoint.  On any other
\* day, or without breadth, it returns the base: the bull target in a bull
\* trend, the bear target in a bear trend, 100% when the trend is unknown.
C20_RiskOnFraction ==
    fn_out # None =>
        LET in == Val(fn_in)
            bear == in.prof.target_exposure_bear
            bull == in.prof.target_exposure_bull
            out == Val(fn_out)
            held(x) == IF x < 0 THEN 0 ELSE IF x > Pct(100) THEN Pct(100) ELSE x
        IN IF RebalanceDue /\ in.breadth # None
           THEN LET b == Val(in.breadth)
                IN /\ b <= 35 => out = held(Pct(bear))
                   /\ b >= 65 => out = held(Pct(bull))
                   /\ (35 < b /\ b < 65) =>
                          out = held((65 - b) * bear + (b - 35) * bull)
                   /\ (b = 50 /\ {bear, bull} \subseteq 0..100) =>
                          2 * out = Pct(bear) + Pct(bull)
           ELSE /\ in.spy = Some(TRUE) => out = Pct(bull)
                /\ in.spy = Some(FALSE) => out = Pct(bear)
                /\ in.spy = None => out = Pct(100)

\* C20 witness: a rebalance day in a bear trend with breadth 0.50 under the
\* balanced preset returned the midpoint of 20% and 98%.
C20_Witness ==
    /\ fn_out = Some(Pct(59))
    /\ Val(fn_in).prof = PROFILES.balanced
    /\ Val(fn_in).spy = Some(FALSE)
    /\ Val(fn_in).breadth = Some(50)
    /\ last_rebalance_day = None

\* The universe position of a symbol.
UniverseIndex(sym) == CHOOSE i \in 1..Len(RankUniverse) : RankUniverse[i] = sym

\* The gain of the last close over the close lb bars back, in percent.
Gain(df, lb) == ((df.last_close - df.past[lb]) * 100) \div df.past[lb]

\* 0.50 m12 + 0.30 m6 + 0.20 m3 - vol_penalty * vol of a frame that passes
\* the filters, in 1/10000.
Score(df, prof) ==
    50 * Gain(df, 252) + 30 * Gain(df, 126) + 20 * Gain(df, 63)
        - prof.vol_penalty * Val(df.vol)

\* C21: _rank_candidates never returns a symbol whose last close is below
\* min_price or is not strictly above its 200-bar average, and it returns the
\* symbols in descending score order, equal scores in universe order.
C21_RankFiltersAndOrder ==
    fn_out # None =>
        LET in == Val(fn_in)
            out == Val(fn_out)
        IN /\ \A i \in 1..Len(out) :
                  /\ in.bars[out[i]].last_close >= in.prof.min_price
                  /\ in.bars[out[i]].last_close > Val(in.bars[out[i]].sma200)
           /\ \A i, j \in 1..Len(out) :
                  i < j =>
                      /\ Score(in.bars[out[i]], in.prof) >= Score(in.bars[out[j]], in.prof)
                      /\ Score(in.bars[out[i]], in.prof) = Score(in.bars[out[j]], in.prof)
                             => UniverseIndex(out[i]) < UniverseIndex(out[j])

\* C21 witness: three symbols were returned, B ahead of A and C, which have
\* the same score and keep their universe order, while the universe has A first.
C21_Witness ==
    /\ fn_out = Some(<<"B", "A", "C">>)
    /\ Val(fn_in).bars["A"] = Val(fn_in).bars["C"]
    /\ Val(fn_in).bars["A"] # Val(fn_in).bars["B"]

\* The ranks the capped pass picks among the first n: rank n is picked when
\* fewer than max_pos ranks before it were picked, fewer than cap of them in
\* its sector.
RECURSIVE PickedRanks(_, _, _, _, _)
PickedRanks(ranked, n, m, max_pos, cap) ==
    IF n = 0 THEN {}
    ELSE LET before == PickedRanks(ranked, n - 1, m, max_pos, cap)
             same == {j \in before : SectorOf(m, ranked[j]) = SectorOf(m, ranked[n])}
         IN IF Cardinality(before) < max_pos /\ Cardinality(same) < cap
            THEN before \cup {n}
            ELSE before

\* The symbols of ranked at the ranks in R, in rank order.
RECURSIVE AtRanks(_, _, _)
AtRanks(ranked, R, n) ==
    IF n = 0 THEN <<>>
    ELSE IF n \in R THEN Append(AtRanks(ranked, R, n - 1), ranked[n])
         ELSE AtRanks(ranked, R, n - 1)

\* C22: with a sector map and distinct ranked symbols, the selection is the
\* capped first-pass picks in rank order followed, while slots remain, by the
\* symbols not yet selected in rank order, min(max_positions, len(ranked))
\* distinct symbols in all; without a sector map it is the first
\* max_positions ranked symbols.
C22_SelectionComposition ==
    fn_out # None =>
        LET in == Val(fn_in)
            out == Val(fn_out)
            max_pos == PROFILES[in.preset].max_positions
            cap == PROFILES[in.preset].max_sector_positions
            n == Len(in.ranked)
            P == PickedRanks(in.ranked, n, in.sector_by_symbol, max_pos, cap)
            both == AtRanks(in.ranked, P, n) \o AtRanks(in.ranked, (1..n) \ P, n)
        IN /\ Len(out) = Min(max_pos, n)
           /\ Cardinality(SeqToSet(out)) = Len(out)
           /\ DOMAIN in.sector_by_symbol # {} => out = SubSeq(both, 1, Min(max_pos, n))
           /\ DOMAIN in.sector_by_symbol = {} => out = SubSeq(in.ranked, 1, Min(max_pos, n))

\* C22 witness: under max_return (7 slots, 2 per sector) with every sector
\* known, eight symbols ranked sector by sector gave the six capped picks and
\* then S3, the best-ranked symbol the cap had passed over.
C22_Witness ==
    /\ fn_out = Some(<<"S1", "S2", "S4", "S5", "S6", "S7", "S3">>)
    /\ Val(fn_in).preset = "max_return"
    /\ Val(fn_in).sector_by_symbol = HomeSector

\* The stop distance max(0.01, atr_mult_trail x ATR) of a sized symbol, in
\* 1/10000 dollar.
RiskStopDistance(in, sym) ==
    IF 27 * Val(in.atr[sym]) > 100 THEN 27 * Val(in.atr[sym]) ELSE 100

\* The risk at stop of the targets from the i-th on, in 1/10000 dollar.
RECURSIVE RiskAtStop(_, _, _)
RiskAtStop(desired_qty, in, i) ==
    IF i > Len(desired_qty) THEN 0
    ELSE desired_qty[i].shares * RiskStopDistance(in, desired_qty[i].symbol)
         + RiskAtStop(desired_qty, in, i + 1)

\* C23: under the balanced preset (budget 0.07, cap 0.01, multiple 2.7) the
\* risk at stop of each sized symbol is at most 1% of the portfolio value and
\* the risk at stop of all sized symbols together at most 7% of it; a single
\* selected symbol on 100,000 has 1,000 risk dollars: when capital allows one
\* more share, one more share would put more than 1,000 at risk.
C23_RiskAtStopCeilings ==
    size_out # None =>
        LET in == Val(size_in)
            targets == Val(size_out).desired_qty
        IN /\ \A i \in 1..Len(targets) :
                 targets[i].shares * RiskStopDistance(in, targets[i].symbol)
                     <= 100 * in.pv
           /\ RiskAtStop(targets, in, 1) <= 700 * in.pv
           /\ (in.pv = 100000 /\ Len(in.selected) = 1 /\ Len(targets) = 1) =>
                 LET t == targets[1]
                 IN (t.shares + 1) * Val(in.px[t.symbol]) * 3000 <= in.pv * in.exposure
                       => (t.shares + 1) * RiskStopDistance(in, t.symbol) > 1000 * 10000

\* C23 witness: A alone selected on 100,000 with ATR 10.0 (stop distance 27)
\* and price 20 got 37 shares, 999 dollars at risk, with capital for far more.
C23_Witness ==
    /\ size_out # None
    /\ Val(size_in).pv = 100000
    /\ Val(size_in).selected = <<"A">>
    /\ Val(size_in).atr["A"] = Some(10000)
    /\ Val(size_in).px["A"] = Some(20)
    /\ Val(size_in).exposure = 3000
    /\ Val(size_out).desired_qty = <<[symbol |-> "A", shares |-> 37]>>

\* The trailing pass of the last step evaluated the stop of symbol s.
Evaluated(ss, s) == \E i \in 1..Len(ss) : ss[i].symbol = s

\* The exit level that evaluation used, in 1/10000 dollar.
LevelOf(ss, s) == StopLevel(ss[CHOOSE i \in 1..Len(ss) : ss[i].symbol = s])

\* C24: while a position stays open and tracked from one step to the next,
\* its tracked high does not decrease and its exit level, the tracked high
\* minus atr_mult_trail x ATR, does not fall.
C24_StopLevelNeverFalls ==
    [][\A s \in DOMAIN position :
          (/\ position[s] > 0 /\ position'[s] > 0
           /\ s \in DOMAIN highest_close /\ s \in DOMAIN highest_close'
           /\ Evaluated(stops, s) /\ Evaluated(stops', s))
          => /\ highest_close'[s] >= highest_close[s]
             /\ LevelOf(stops', s) >= LevelOf(stops, s)]_vars

\* C25: a step on which a held symbol has a price but no ATR sends no
\* trailing-stop exit for it and leaves it tracked, at the higher of its
\* tracked high and the price; and when the ATR is back on the next step, the
\* stop is evaluated on that step.
C25_MissingAtrSkips ==
    [][\A s \in DOMAIN position :
          (position[s] > 0 /\ log' # <<>>) =>
              /\ Val(fn_in').atr[s] = None =>
                    /\ Sent(orders', "trail", s) = {}
                    /\ ~Evaluated(stops', s)
                    /\ s \in DOMAIN highest_close'
                    /\ highest_close'[s] =
                          IF s \in DOMAIN highest_close
                             /\ highest_close[s] >= Val(Val(fn_in').px[s])
                          THEN highest_close[s]
                          ELSE Val(Val(fn_in').px[s])
              /\ (fn_in # None /\ Val(fn_in).atr[s] = None
                  /\ Val(fn_in').atr[s] # None) => Evaluated(stops', s)]_vars

\* C25 witness: the step just taken had no ATR for the held symbol A and a
\* price of 1010 over its tracked high; it sent nothing and A is tracked at 1010.
C25_Witness ==
    /\ log # <<>>
    /\ position["A"] > 0
    /\ fn_in # None
    /\ Val(fn_in).atr["A"] = None
    /\ Val(fn_in).px["A"] = Some(1010)
    /\ orders = <<>>
    /\ highest_close = [s \in {"A"} |-> 1010]

\* The quantity the sell orders from the i-th on ask to sell of symbol s.
RECURSIVE SellQty(_, _, _)
SellQty(os, s, i) ==
    IF i > Len(os) THEN 0
    ELSE (IF os[i].symbol = s /\ os[i].side = "sell" THEN os[i].qty ELSE 0)
         + SellQty(os, s, i + 1)

\* C26: the sell orders one trading step sends for a symbol, from trailing
\* stop, drawdown breaker and rebalance together, ask for no more than the
\* quantity held when the step began (the positions the host reports do not
\* change during the step).
C26_NoOversellInStep ==
    log # <<>> =>
        \A s \in DOMAIN position : SellQty(orders, s, 1) <= Max(position[s], 0)

\* C27: every step that gets past the cooldown and cadence gates and runs
\* the rebalance leaves last_rebalance_day at the step's date, whether or
\* not the rebalance sent an order.
C27_GatePassedSetsDay ==
    (log # <<>> /\ InSeq("rebalance", log)) => last_rebalance_day = Some(today)

\* C28: a held symbol that is in the selection and receives no sizing target
\* is sent no order by the rebalance.  Here the one symbol of the universe
\* is selected on every step that gets to select, so on such a step that
\* ends without a target no held position gets a rebalance order.
C28_SelectedWithoutTargetUntouched ==
    (InSeq("select", log)
     /\ (InSeq("no vols -> cash", log) \/ InSeq("no targets after sizing -> cash", log))) =>
        \A s \in DOMAIN position :
            position[s] # 0 => Sent(orders, "rebalance", s) = {}

====
